---- MODULE Spec2Model ----
(***************************************************************************)
(* AudioCraft Studio API (server.js): the POST /api/audio/enhance handler, *)
(* the engine probe checkFFmpeg, the filter-chain construction of          *)
(* processAudioWithEffects and the temporary-file cleanup, as a state      *)
(* machine.  One step of the model is one run-to-completion turn of the    *)
(* Node.js event loop: the code between two await points or callbacks.     *)
(*                                                                         *)
(* Numbers.  The four settings are carried in TENTHS (pitch 0.1 is 1,      *)
(* tempo 99.5 is 995, warmth 8 is 80, tempo 100 is 1000).  What parseFloat *)
(* returns is <<n>> for the number n and <<>> for NaN.  Filter parameters  *)
(* are exact fractions <<num, den>>.                                       *)
(***************************************************************************)
EXTENDS Integers, Sequences, FiniteSets, TLC

(* ------------------------------ bounds -------------------------------- *)

\* Enhance requests the clients issue in one behaviour (all may overlap).
MaxRequests == 2

(* ------------------------- program constants -------------------------- *)

\* freeTracksLeft: 5 at signup.
FreeTracks == 5

\* The || defaults of processAudioWithEffects, in tenths.
DefaultPitch == 1
DefaultTempo == 995
DefaultWarmth == 80
DefaultReverb == 80

\* tempoPercent !== 100, in tenths.
NeutralTempo == 1000

(* --------------------------- JSON / JS values -------------------------- *)

NaN == <<>>

Undefined == [t |-> "undefined", v |-> <<>>]
Null == [t |-> "null", v |-> <<>>]
Num(n) == [t |-> "number", v |-> n]
Str(s) == [t |-> "string", v |-> s]
Bool(b) == [t |-> "boolean", v |-> b]

DigitChars == <<"0", "1", "2", "3", "4", "5", "6", "7", "8", "9">>

IsDigit(c) == \E i \in 1..10 : DigitChars[i] = c

DigitVal(c) == (CHOOSE i \in 1..10 : DigitChars[i] = c) - 1

\* Number of leading characters of s that are digits.
RECURSIVE DigitRun(_)
DigitRun(s) ==
  IF s = <<>> \/ ~IsDigit(Head(s)) THEN 0 ELSE 1 + DigitRun(Tail(s))

\* Value of a sequence of digits, most significant first.
RECURSIVE DigitsValue(_, _)
DigitsValue(s, acc) ==
  IF s = <<>> THEN acc ELSE DigitsValue(Tail(s), 10 * acc + DigitVal(Head(s)))

RECURSIVE TrimLeft(_)
TrimLeft(s) == IF s # <<>> /\ Head(s) = " " THEN TrimLeft(Tail(s)) ELSE s

\* parseFloat on a string: leading blanks, an optional sign, digits, an
\* optional fraction; the longest such prefix is the number, anything after
\* it is ignored, and no digit at all gives NaN.  The result is in tenths
\* (fraction digits after the first are dropped by this model).
ParseFloatString(str) ==
  LET s0 == TrimLeft(str)
      neg == s0 # <<>> /\ Head(s0) = "-"
      s1 == IF s0 # <<>> /\ Head(s0) \in {"-", "+"} THEN Tail(s0) ELSE s0
      ni == DigitRun(s1)
      ip == SubSeq(s1, 1, ni)
      s2 == SubSeq(s1, ni + 1, Len(s1))
      dot == s2 # <<>> /\ Head(s2) = "."
      s3 == IF dot THEN Tail(s2) ELSE <<>>
      nf == DigitRun(s3)
      frac == IF nf > 0 THEN DigitVal(s3[1]) ELSE 0
      mag == 10 * DigitsValue(ip, 0) + frac
  IN IF ni = 0 /\ nf = 0 THEN NaN ELSE IF neg THEN <<0 - mag>> ELSE <<mag>>

\* parseFloat(x): a number is itself; a string is parsed; undefined, null and
\* booleans print as text with no leading digit and give NaN.
parseFloat(x) ==
  CASE x.t = "number" -> <<x.v>>
    [] x.t = "string" -> ParseFloatString(x.v)
    [] OTHER -> NaN

\* a || b on what parseFloat returned: NaN and 0 are falsy.
OrDefault(a, b) == IF a = NaN \/ a = <<0>> THEN b ELSE a[1]

(* ------------------------------ settings ------------------------------- *)

\* settings.<field> of a parsed JSON value: an object holds its own fields
\* (a missing one is undefined); a number, string or boolean has none.
Obj(p, t, w, r) == [t |-> "object", v |-> [pitch |-> p, tempo |-> t, warmth |-> w, reverb |-> r]]

Field(settings, f) == IF settings.t = "object" THEN settings.v[f] ELSE Undefined

\* Mutant of tempoPercent: the default is the neutral 100 instead of 99.5.
tempoPercentNeutralDefault(settings) ==
  OrDefault(parseFloat(Field(settings, "tempo")), NeutralTempo)

\* Lines 62-65.
pitchSemitones(settings) == OrDefault(parseFloat(Field(settings, "pitch")), DefaultPitch)
tempoPercent(settings) == OrDefault(parseFloat(Field(settings, "tempo")), DefaultTempo)
warmthLevel(settings) == OrDefault(parseFloat(Field(settings, "warmth")), DefaultWarmth)
reverbLevel(settings) == OrDefault(parseFloat(Field(settings, "reverb")), DefaultReverb)

(* ---------------------------- filter chain ----------------------------- *)

\* One filter directive: its ffmpeg filter name and up to two numeric
\* parameters as fractions <<num, den>>.
Directive(name, p1, p2) == [name |-> name, p1 |-> p1, p2 |-> p2]
NoParam == <<0, 1>>

\* `atempo=${tempoPercent / 100}`
TempoStage(tempo) ==
  IF tempo # NeutralTempo THEN <<Directive("atempo", <<tempo, 1000>>, NoParam)>> ELSE <<>>

\* `asetrate=44100*${pitchRatio},aresample=44100`, pitchRatio = 2^(semitones/12):
\* p1 is the exponent semitones/12.
PitchStage(pitch) ==
  IF pitch # 0 THEN <<Directive("asetrate", <<pitch, 120>>, <<44100, 1>>)>> ELSE <<>>

\* Mutant of WarmthStage: the makeup gain is 1 + warmthLevel / 100.
WarmthStageSteeper(warmth) ==
  IF warmth > 0 THEN <<Directive("acompressor", <<1000 + warmth, 1000>>, NoParam)>> ELSE <<>>

\* `acompressor=ratio=2:threshold=-20dB:makeup=${1 + warmthLevel / 200}`
WarmthStage(warmth) ==
  IF warmth > 0 THEN <<Directive("acompressor", <<2000 + warmth, 2000>>, NoParam)>> ELSE <<>>

\* `aecho=0.8:0.9:${reverbAmount * 50}:${reverbAmount * 0.3}`, reverbAmount = level/100
ReverbStage(reverb) ==
  IF reverb > 0 THEN <<Directive("aecho", <<reverb, 20>>, <<3 * reverb, 10000>>)>> ELSE <<>>

NormalizeStage == Directive("dynaudnorm", NoParam, NoParam)
EqStage == Directive("equalizer", NoParam, NoParam)

\* Mutant of BuildFilters: the pitch stage is pushed before the tempo stage.
BuildFiltersPitchFirst(settings) ==
  PitchStage(pitchSemitones(settings))
    \o TempoStage(tempoPercent(settings))
    \o WarmthStage(warmthLevel(settings))
    \o ReverbStage(reverbLevel(settings))
    \o <<NormalizeStage, EqStage>>

\* Lines 71-97: the audioFilters array of processAudioWithEffects.
BuildFilters(settings) ==
  TempoStage(tempoPercent(settings))
    \o PitchStage(pitchSemitones(settings))
    \o WarmthStage(warmthLevel(settings))
    \o ReverbStage(reverbLevel(settings))
    \o <<NormalizeStage, EqStage>>

StageNames(chain) == [i \in 1..Len(chain) |-> chain[i].name]

(* ------------------------------- inputs -------------------------------- *)

Requests == 1..MaxRequests

\* Account ids a token can name; `users` holds those that signed up.
UserIds == {"u1"}
NoUser == "nobody"

\* The Authorization header: absent, a token jwt.verify rejects, or a token
\* signed for userId.
NoToken == [kind |-> "none", userId |-> NoUser]
BadToken == [kind |-> "invalid", userId |-> NoUser]
TokenFor(u) == [kind |-> "valid", userId |-> u]
Tokens == {NoToken, BadToken} \cup {TokenFor(u) : u \in UserIds}

\* req.body.settings: absent (or empty), text JSON.parse rejects, or the text
\* of a JSON value.
AbsentBody == [k |-> "absent", v |-> Undefined]
MalformedBody == [k |-> "malformed", v |-> Undefined]
JsonBody(value) == [k |-> "json", v |-> value]

EmptyObject == Obj(Undefined, Undefined, Undefined, Undefined)
NeutralObject == Obj(Num(0), Num(1000), Num(0), Num(0))

\* The settings blobs the clients of Spec send.
ClientBodies ==
  {AbsentBody, MalformedBody, JsonBody(Null), JsonBody(NeutralObject)}

\* Messages the engine's 'error' event carries.
EngineMessages == {"ffmpeg exited with code 1"}

(* ------------------------------- state --------------------------------- *)

VARIABLES
  users,      \* the users Map: account id -> [freeTracksLeft, subscription]
  disk,       \* the uploads/ directory: path -> "partial" | "complete"
  nUploads,   \* file names multer has generated
  nUuids,     \* values uuidv4() has returned to the enhance handler
  job         \* per request: the handler's locals, its position, its response

vars == <<users, disk, nUploads, nUuids, job>>

NoPath == <<>>
NoResponse == [status |-> 0, message |-> "", error |-> <<>>, file |-> NoPath, done |-> FALSE]

\* res.status(s).json({message, error}): the response is complete at once.
Json(status, message, error) ==
  [status |-> status, message |-> message, error |-> error, file |-> NoPath, done |-> TRUE]

\* res.download(path, name, cb): the file starts streaming; cb runs when the
\* transfer has ended.
Download(path) ==
  [status |-> 200, message |-> "", error |-> <<>>, file |-> path, done |-> FALSE]

IdleJob ==
  [pc |-> "idle", user |-> NoUser, settings |-> Undefined, inputPath |-> NoPath,
   outputPath |-> NoPath, probe |-> "pending", ffmpegAvailable |-> "pending",
   audioFilters |-> <<>>,
   mode |-> "none", engine |-> "none", res |-> NoResponse, unlinks |-> <<>>]

\* multer({dest: 'uploads/'}): a random file name per stored upload.
UploadName(n) == <<"uploads", n>>

\* Mutant of uuidv4: the same value on every call.
uuidv4Repeated(n) == 1

\* uuidv4(): a value never returned before.
uuidv4(n) == n + 1

\* path.join('uploads', `enhanced_${uuidv4()}.mp3`)
EnhancedPath(id) == <<"uploads/enhanced", id>>

Exists(p) == p \in DOMAIN disk

\* fs.unlink(p): removes the file when it succeeds; it cannot succeed on a
\* path that does not exist.
Unlinked(d, p, ok) == IF ok THEN [q \in DOMAIN d \ {p} |-> d[q]] ELSE d
UnlinkResults(p) == IF Exists(p) THEN BOOLEAN ELSE {FALSE}

Written(d, p, content) == [q \in DOMAIN d \cup {p} |-> IF q = p THEN content ELSE d[q]]

\* The server at a quiet moment: no request in flight, uploads/ empty, each
\* account either absent or holding what is left of its FreeTracks credits
\* (signup gives FreeTracks, each completed enhancement takes one).
Init ==
  /\ \E S \in SUBSET UserIds :
       users \in [S -> [freeTracksLeft : 0..FreeTracks, subscription : {"none"}]]
  /\ disk = <<>>
  /\ nUploads = 0
  /\ nUuids = 0
  /\ job = [r \in Requests |-> IdleJob]

(* ------------------------ POST /api/audio/enhance ---------------------- *)

Set(r, new) == job' = [job EXCEPT ![r] = new]

MayProcess(u) == ~(users[u].subscription # "active" /\ users[u].freeTracksLeft <= 0)

\* Lines 236-257: where the synchronous head of the handler leaves.
Precheck(token, file, body) ==
  CASE token.kind = "none" -> "unauthorized"
    [] token.kind = "invalid" -> "threw"
    [] token.userId \notin DOMAIN users -> "notFound"
    [] ~MayProcess(token.userId) -> "noCredits"
    [] ~file -> "noFile"
    [] body.k = "malformed" -> "threw"
    [] OTHER -> "accepted"

\* JSON.parse(req.body.settings || '{}') on a body it accepts.
ParsedSettings(body) == IF body.k = "absent" THEN EmptyObject ELSE body.v

\* Mutant of Deducted: the deduction is left out.
DeductedNothing(us, u) == us

\* Mutant of Deducted: the subscription is not looked at.
DeductedFromAll(us, u) == [us EXCEPT ![u].freeTracksLeft = @ - 1]

\* if (user.subscription.status !== 'active') user.freeTracksLeft -= 1
Deducted(us, u) ==
  IF us[u].subscription # "active"
    THEN [us EXCEPT ![u].freeTracksLeft = @ - 1]
    ELSE us

\* What the model remembers of one fs.unlink call: the path, whether the
\* response was already complete when it was issued, whether it succeeded.
UnlinkCall(path, after, ok) == [path |-> path, after |-> after, ok |-> ok]

\* The handler and its callbacks have all returned: nothing of the request
\* is scheduled any more and its settings and filter list are out of scope.
Closed(j) == [j EXCEPT !.pc = "closed", !.settings = Undefined, !.audioFilters = <<>>]

\* A request arrives: multer stores the upload (if any), then the handler
\* runs to its first await or to a response (lines 234-266, 326-332).
Arrive(r, token, file, body) ==
  /\ job[r].pc = "idle"
  /\ \A q \in Requests : q < r => job[q].pc # "idle"
  /\ LET path == IF file THEN UploadName(nUploads + 1) ELSE NoPath
           out == Precheck(token, file, body)
           found == token.kind = "valid" /\ token.userId \in DOMAIN users
           j0 == [job[r] EXCEPT !.inputPath = path,
                                !.user = IF found THEN token.userId ELSE NoUser]
     IN   /\ nUploads' = IF file THEN nUploads + 1 ELSE nUploads
          /\ disk' = IF file THEN Written(disk, path, "complete") ELSE disk
          /\ CASE out = "unauthorized" ->
                    Set(r, Closed([j0 EXCEPT !.res = Json(401, "Unauthorized", <<>>)]))
               [] out = "threw" /\ file ->
                    Set(r, [j0 EXCEPT !.pc = "catchUnlink"])
               [] out = "threw" /\ ~file ->
                    Set(r, Closed([j0 EXCEPT !.res = Json(500, "Processing failed", <<>>)]))
               [] out = "notFound" ->
                    Set(r, Closed([j0 EXCEPT !.res = Json(404, "User not found", <<>>)]))
               [] out = "noCredits" ->
                    Set(r, Closed([j0 EXCEPT !.res = Json(403, "No credits remaining", <<>>)]))
               [] out = "noFile" ->
                    Set(r, Closed([j0 EXCEPT !.res = Json(400, "No audio file provided", <<>>)]))
               [] out = "accepted" ->
                    Set(r, [j0 EXCEPT !.pc = "probing",
                                      !.settings = ParsedSettings(body),
                                      !.outputPath = EnhancedPath(uuidv4(nUuids))])
          /\ nUuids' = IF out = "accepted" THEN nUuids + 1 ELSE nUuids
  /\ UNCHANGED users

\* The requests of Spec: any token, with or without a file, any client body.
Begin(r) ==
  \E token \in Tokens, file \in BOOLEAN, body \in ClientBodies :
     Arrive(r, token, file, body)

\* Outer catch, lines 326-332: the awaited unlink of req.file.path returns
\* (a failure is only logged), then the 500 is sent.
CatchUnlinkDone(r) ==
  /\ job[r].pc = "catchUnlink"
  /\ \E ok \in UnlinkResults(job[r].inputPath) :
       /\ disk' = Unlinked(disk, job[r].inputPath, ok)
       /\ Set(r, Closed([job[r] EXCEPT
                           !.res = Json(500, "Processing failed", <<>>),
                           !.unlinks = Append(@, UnlinkCall(job[r].inputPath, FALSE, ok))]))
  /\ UNCHANGED <<users, nUploads, nUuids>>

\* settings.pitch on null throws a TypeError inside the promise executor.
SettingsThrow(settings) == settings.t = "null"

\* processingError catch, lines 297-299: log, then await the unlink of the input.
ProcessingFailed(j, message) ==
  [j EXCEPT !.pc = "failUnlink", !.res = [@ EXCEPT !.error = message]]

\* Mutant of Delivering: the cleanup timer is armed when the download starts,
\* not in its callback.
DeliveringTimerArmed(j, path) ==
  [j EXCEPT !.pc = "timer", !.res = Download(path)]

\* Real success, lines 273-280: deduct, then start the download of the output.
\* Simulation, lines 308-315: deduct, then start the download of the input.
Delivering(j, path) ==
  [j EXCEPT !.pc = "downloading", !.res = Download(path)]

\* What ffmpeg.getAvailableFormats hands its callback: an error or the formats.
ProbeOutcomes == {"error", "formats"}

\* Mutant of checkFFmpeg: the promise resolves true whatever the query said.
checkFFmpegOptimistic(outcome) == TRUE

\* checkFFmpeg, lines 37-54: resolve(false) on an error, resolve(true) otherwise;
\* there is no reject.
checkFFmpeg(outcome) == outcome # "error"

\* checkFFmpeg resolves (lines 37-54, 266-271, 306-315).  Available: the
\* executor of processAudioWithEffects builds the filters and starts ffmpeg.
\* Unavailable: simulation mode.
ProbeDone(r) ==
  /\ job[r].pc = "probing"
  /\ \E outcome \in ProbeOutcomes :
       LET available == checkFFmpeg(outcome)
           j0 == [job[r] EXCEPT !.probe = outcome,
                                !.ffmpegAvailable = IF available THEN "true" ELSE "false"]
       IN IF available
            THEN /\ IF SettingsThrow(j0.settings)
                      THEN Set(r, ProcessingFailed([j0 EXCEPT !.mode = "Real"],
                                                   <<"TypeError: settings is null">>))
                      ELSE Set(r, [j0 EXCEPT !.pc = "processing",
                                             !.mode = "Real",
                                             !.audioFilters = BuildFilters(j0.settings),
                                             !.engine = "running"])
                 /\ UNCHANGED users
            ELSE /\ Set(r, Delivering([j0 EXCEPT !.mode = "Simulated"], j0.inputPath))
                 /\ users' = Deducted(users, j0.user)
  /\ UNCHANGED <<disk, nUploads, nUuids>>

\* Mutant of EngineProgress: the promise resolves on the first 'progress', and
\* the handler delivers what is written so far.
EngineProgressResolves(r) ==
  /\ job[r].pc = "processing"
  /\ ~Exists(job[r].outputPath)
  /\ disk' = Written(disk, job[r].outputPath, "partial")
  /\ Set(r, [job[r] EXCEPT !.pc = "downloading", !.res = Download(job[r].outputPath)])
  /\ UNCHANGED <<users, nUploads, nUuids>>

\* ffmpeg is writing the output file ('progress', lines 110-112).
EngineProgress(r) ==
  /\ job[r].pc = "processing"
  /\ ~Exists(job[r].outputPath)
  /\ disk' = Written(disk, job[r].outputPath, "partial")
  /\ UNCHANGED <<users, nUploads, nUuids, job>>

\* 'end' (lines 113-116): the output is complete, the promise resolves and the
\* handler resumes at line 273.
EngineEnd(r) ==
  /\ job[r].pc = "processing"
  /\ disk' = Written(disk, job[r].outputPath, "complete")
  /\ Set(r, Delivering([job[r] EXCEPT !.engine = "ended"], job[r].outputPath))
  /\ users' = Deducted(users, job[r].user)
  /\ UNCHANGED <<nUploads, nUuids>>

\* Mutant of EngineError: the credit is taken before the failure is handled.
EngineErrorCharged(r) ==
  /\ job[r].pc = "processing"
  /\ \E m \in EngineMessages :
       Set(r, [job[r] EXCEPT !.pc = "failUnlink", !.engine = "failed",
                             !.res = [@ EXCEPT !.error = <<"Audio processing failed: ", m>>]])
  /\ users' = [users EXCEPT ![job[r].user].freeTracksLeft = @ - 1]
  /\ UNCHANGED <<disk, nUploads, nUuids>>

\* 'error' (lines 117-121): the promise rejects with the engine's message and
\* the handler resumes in the processingError catch.  Whatever ffmpeg had
\* written stays where it is.
EngineError(r) ==
  /\ job[r].pc = "processing"
  /\ \E m \in EngineMessages :
       Set(r, ProcessingFailed([job[r] EXCEPT !.engine = "failed"],
                               <<"Audio processing failed: ", m>>))
  /\ UNCHANGED <<users, disk, nUploads, nUuids>>

\* Mutant of FailUnlinkDone: after the failure the engine is run once more.
FailUnlinkDoneRetry(r) ==
  /\ job[r].pc = "failUnlink"
  /\ Set(r, [job[r] EXCEPT !.pc = "processing", !.engine = "running"])
  /\ UNCHANGED <<users, disk, nUploads, nUuids>>

\* Lines 299-303: the awaited unlink of the input returns (a failure is only
\* logged), then the 500 carrying processingError.message is sent.
FailUnlinkDone(r) ==
  /\ job[r].pc = "failUnlink"
  /\ \E ok \in UnlinkResults(job[r].inputPath) :
       /\ disk' = Unlinked(disk, job[r].inputPath, ok)
       /\ Set(r, Closed([job[r] EXCEPT
                           !.res = Json(500, "Audio processing failed", job[r].res.error),
                           !.unlinks = Append(@, UnlinkCall(job[r].inputPath, FALSE, ok))]))
  /\ UNCHANGED <<users, nUploads, nUuids>>

\* The download callback (lines 280-294, 315-322): runs when the transfer
\* ended, with or without an error, and arms the 30 s timer.
DownloadDone(r) ==
  /\ job[r].pc = "downloading"
  /\ Set(r, [job[r] EXCEPT !.pc = "timer", !.res = [@ EXCEPT !.done = TRUE]])
  /\ UNCHANGED <<users, disk, nUploads, nUuids>>

\* The timer fires and unlinks the input.  Real (lines 287-293): when that
\* unlink fails the catch logs it and the output is not touched; when it
\* succeeds the unlink of the output follows.  Simulation (line 321): the
\* input is all there is.
TimerFire(r) ==
  /\ job[r].pc = "timer"
  /\ \E ok \in UnlinkResults(job[r].inputPath) :
       /\ disk' = Unlinked(disk, job[r].inputPath, ok)
       /\ LET j0 == [job[r] EXCEPT
                       !.unlinks = Append(@, UnlinkCall(job[r].inputPath, job[r].res.done, ok))]
          IN IF job[r].mode = "Real" /\ ok
               THEN Set(r, [j0 EXCEPT !.pc = "unlinkOutput"])
               ELSE Set(r, Closed(j0))
  /\ UNCHANGED <<users, nUploads, nUuids>>

\* Line 289: the unlink of the output returns.
UnlinkOutputDone(r) ==
  /\ job[r].pc = "unlinkOutput"
  /\ \E ok \in UnlinkResults(job[r].outputPath) :
       /\ disk' = Unlinked(disk, job[r].outputPath, ok)
       /\ Set(r, Closed([job[r] EXCEPT
                           !.unlinks = Append(@, UnlinkCall(job[r].outputPath, job[r].res.done, ok))]))
  /\ UNCHANGED <<users, nUploads, nUuids>>

\* The account collaborator marks a subscription active.
Subscribe(u) ==
  /\ u \in DOMAIN users
  /\ users[u].subscription = "none"
  /\ users' = [users EXCEPT ![u].subscription = "active"]
  /\ UNCHANGED <<disk, nUploads, nUuids, job>>

Next ==
  \/ \E r \in Requests : Begin(r)
  \/ \E r \in Requests : CatchUnlinkDone(r)
  \/ \E r \in Requests : ProbeDone(r)
  \/ \E r \in Requests : EngineProgress(r)
  \/ \E r \in Requests : EngineEnd(r)
  \/ \E r \in Requests : EngineError(r)
  \/ \E r \in Requests : FailUnlinkDone(r)
  \/ \E r \in Requests : DownloadDone(r)
  \/ \E r \in Requests : TimerFire(r)
  \/ \E r \in Requests : UnlinkOutputDone(r)
  \/ \E u \in UserIds : Subscribe(u)

Spec == Init /\ [][Next]_vars

(* ------------- one request, many settings objects (SpecSettings) ------- *)

\* What a client may put in each field of the settings object.
PitchValues ==
  {Undefined, Num(0), Num(DefaultPitch), Num(-20), Str(<<"a", "b", "c">>), Str(<<"1", ".", "5">>)}
TempoValues ==
  {Undefined, Null, Num(0), Num(DefaultTempo), Num(NeutralTempo),
   Str(<<"1", "0", "0">>), Str(<<"1", "1", "0", "%">>)}
WarmthValues ==
  {Undefined, Num(0), Num(50), Num(DefaultWarmth), Num(-10), Num(1000), Bool(TRUE),
   Str(<<"5", "0">>)}
ReverbValues ==
  {Undefined, Num(0), Num(DefaultReverb), Num(-10), Num(500), Str(<<" ", "8">>)}

SettingsObjects ==
  {Obj(p, t, w, v) : p \in PitchValues, t \in TempoValues, w \in WarmthValues, v \in ReverbValues}

\* A signed-up user with all free tracks sends one request with a file and a
\* settings object.
InitSettings ==
  /\ users = [u \in UserIds |-> [freeTracksLeft |-> FreeTracks, subscription |-> "none"]]
  /\ disk = <<>>
  /\ nUploads = 0
  /\ nUuids = 0
  /\ job = [r \in Requests |-> IdleJob]

BeginSettings(r) ==
  /\ r = 1
  /\ \E u \in UserIds, o \in SettingsObjects : Arrive(r, TokenFor(u), TRUE, JsonBody(o))

NextSettings ==
  \/ \E r \in Requests : BeginSettings(r)
  \/ \E r \in Requests : ProbeDone(r)
  \/ \E r \in Requests : EngineProgress(r)
  \/ \E r \in Requests : EngineEnd(r)
  \/ \E r \in Requests : EngineError(r)
  \/ \E r \in Requests : FailUnlinkDone(r)
  \/ \E r \in Requests : DownloadDone(r)
  \/ \E r \in Requests : TimerFire(r)
  \/ \E r \in Requests : UnlinkOutputDone(r)

SpecSettings == InitSettings /\ [][NextSettings]_vars

(* ------------------------------ properties ----------------------------- *)

TypeOK ==
  /\ DOMAIN users \subseteq UserIds
  /\ nUploads \in 0..MaxRequests
  /\ nUuids \in 0..MaxRequests

\* Every fs.unlink the request issued succeeded.
DeletionsSucceeded(j) == \A i \in 1..Len(j.unlinks) : j.unlinks[i].ok

\* The step is one of request r's own (each handler step changes its job).
StepOf(r) == job'[r] # job[r]

\* C1: under any interleaving of concurrent enhance requests of one user
\* without a subscription, freeTracksLeft is never negative.
C1_CreditsNeverNegative ==
  \A u \in DOMAIN users : users[u].freeTracksLeft >= 0

\* C2: a request whose engine invocation failed is answered with the
\* processing failure carrying the engine's message, and no step of that
\* request changes the credit counter.
C2_EngineFailureNotCharged ==
  [][\A r \in Requests :
       (StepOf(r) /\ job'[r].engine = "failed") =>
          /\ users' = users
          /\ job'[r].res.done =>
               /\ job'[r].res.status = 500
               /\ job'[r].res.message = "Audio processing failed"
               /\ \E m \in EngineMessages :
                    job'[r].res.error = <<"Audio processing failed: ", m>>]_vars

C2_Witness ==
  \E r \in Requests :
     /\ job[r].engine = "failed"
     /\ job[r].pc = "closed"
     /\ job[r].res.status = 500
     /\ \E u \in DOMAIN users : users[u].subscription = "none" /\ users[u].freeTracksLeft > 0

\* C3: once a request whose engine invocation failed has been answered (its
\* unlink having succeeded), neither its input file nor any output file of
\* the job is on disk.
C3_FailedJobLeavesNoFile ==
  \A r \in Requests :
     (job[r].engine = "failed" /\ job[r].res.done /\ DeletionsSucceeded(job[r])) =>
        ~Exists(job[r].inputPath) /\ ~Exists(job[r].outputPath)

\* The path the job delivers from: the engine's output, or the input itself
\* in simulation mode.
JobOutput(j) == IF j.mode = "Simulated" THEN j.inputPath ELSE j.outputPath

UnlinksOf(j, p) == {i \in 1..Len(j.unlinks) : j.unlinks[i].path = p}

\* C4: for every request that reached processing (real success, engine
\* failure, simulation), the deletion of its input path and of its output
\* path is issued exactly once each, and only after the response is complete.
C4_BothPathsDeletedOnceAfterResponse ==
  \A r \in Requests :
     (job[r].pc = "closed" /\ (job[r].engine # "none" \/ job[r].mode = "Simulated")) =>
        /\ Cardinality(UnlinksOf(job[r], job[r].inputPath)) = 1
        /\ Cardinality(UnlinksOf(job[r], JobOutput(job[r]))) = 1
        /\ \A i \in 1..Len(job[r].unlinks) : job[r].unlinks[i].after

\* C5: whatever way the request ended (rejections included), once nothing of
\* it is scheduled any more and its deletions succeeded, no temporary file of
\* it is left on disk.
C5_NoTemporaryFileLeft ==
  \A r \in Requests :
     (job[r].pc = "closed" /\ DeletionsSucceeded(job[r])) =>
        ~Exists(job[r].inputPath) /\ ~Exists(job[r].outputPath)

\* This step took one credit from u and changed nothing else of the users
\* Map, or, u having an active subscription, left the Map as it was.
OneCreditTaken(u) ==
  IF users[u].subscription # "active"
    THEN /\ DOMAIN users' = DOMAIN users
         /\ users'[u].freeTracksLeft = users[u].freeTracksLeft - 1
         /\ users'[u].subscription = users[u].subscription
         /\ \A w \in DOMAIN users \ {u} : users'[w] = users[w]
    ELSE users' = users

\* C6: when the probe reported the engine unavailable, the file delivered is
\* the input itself, no output file exists, the mode is Simulated, and the
\* request takes exactly one credit from a user without a subscription (in
\* the step that starts the delivery, and in no other).
C6_SimulationDeliversInput ==
  /\ [](\A r \in Requests :
          job[r].ffmpegAvailable = "false" =>
             /\ job[r].mode = "Simulated"
             /\ job[r].res.status = 200
             /\ job[r].res.file = job[r].inputPath
             /\ job[r].engine = "none"
             /\ ~Exists(job[r].outputPath))
  /\ [][\A r \in Requests :
          (StepOf(r) /\ job'[r].ffmpegAvailable = "false") =>
             IF job[r].pc = "probing"
               THEN OneCreditTaken(job'[r].user)
               ELSE users' = users]_vars

C6_Witness ==
  \E r \in Requests :
     /\ job[r].mode = "Simulated"
     /\ job[r].res.done
     /\ users[job[r].user].subscription = "none"
     /\ users[job[r].user].freeTracksLeft < FreeTracks

Running(j) == j.pc \notin {"idle", "closed"}

FilesOf(j) == {j.inputPath, j.outputPath} \ {NoPath}

\* C7: two jobs running at the same time never have the same output path (nor
\* share any file), and a file of a job disappears only in a step of that job.
C7_JobsKeepTheirOwnFiles ==
  /\ [](\A r, q \in Requests :
          (r # q /\ Running(job[r]) /\ Running(job[q])) =>
             /\ job[r].outputPath # NoPath => job[r].outputPath # job[q].outputPath
             /\ JobOutput(job[r]) # NoPath => JobOutput(job[r]) # JobOutput(job[q])
             /\ FilesOf(job[r]) \cap FilesOf(job[q]) = {})
  /\ [][\A q \in Requests : \A p \in FilesOf(job[q]) :
          (p \in DOMAIN disk /\ p \notin DOMAIN disk') => StepOf(q)]_vars

C7_Witness ==
  \E r, q \in Requests :
     /\ r # q
     /\ job[r].pc = "closed"
     /\ Len(job[r].unlinks) = 2
     /\ job[q].pc = "downloading"
     /\ job[q].mode = "Real"
     /\ Exists(job[q].inputPath)
     /\ Exists(job[q].outputPath)

\* C8: with the settings {pitch:0, tempo:100, warmth:0, reverb:0} and the
\* engine available, the filter chain handed to the engine is the
\* normalization stage followed by the EQ stage, and the mode is Real.
C8_NeutralSettingsGiveTwoStages ==
  \A r \in Requests :
     (job[r].settings = NeutralObject /\ job[r].engine # "none") =>
        /\ job[r].mode = "Real"
        /\ StageNames(job[r].audioFilters) = <<"dynaudnorm", "equalizer">>

\* C9: with empty settings {} and the engine available, the mode is Real, the
\* chain is tempo, pitch, warmth, reverb, normalize, EQ, and the request takes
\* exactly one credit from a user without a subscription (in the step that
\* follows the engine's 'end', and in no other).
C9_EmptySettingsGiveSixStages ==
  /\ [](\A r \in Requests :
          (job[r].settings = EmptyObject /\ job[r].ffmpegAvailable = "true") =>
             /\ job[r].mode = "Real"
             /\ StageNames(job[r].audioFilters)
                  = <<"atempo", "asetrate", "acompressor", "aecho", "dynaudnorm", "equalizer">>)
  /\ [][\A r \in Requests :
          (StepOf(r) /\ job[r].settings = EmptyObject /\ job[r].ffmpegAvailable = "true") =>
             IF job[r].engine = "running" /\ job'[r].engine = "ended"
               THEN /\ OneCreditTaken(job[r].user)
                    /\ job'[r].res.file = job[r].outputPath
               ELSE users' = users]_vars

C9_Witness ==
  \E r \in Requests :
     /\ job[r].settings = EmptyObject
     /\ job[r].pc = "downloading"
     /\ job[r].mode = "Real"
     /\ Len(job[r].audioFilters) = 6
     /\ users[job[r].user].subscription = "none"
     /\ users[job[r].user].freeTracksLeft < FreeTracks

\* Every field of the settings comes out of lines 62-65 as its default.
TakesDefaults(settings) ==
  /\ pitchSemitones(settings) = DefaultPitch
  /\ tempoPercent(settings) = DefaultTempo
  /\ warmthLevel(settings) = DefaultWarmth
  /\ reverbLevel(settings) = DefaultReverb

\* C10 as stated: when every field takes its default, the chain built for the
\* engine is the two always-on stages and nothing else.
C10_DefaultsGiveTwoStages ==
  \A r \in Requests :
     (Running(job[r]) /\ job[r].engine # "none" /\ TakesDefaults(job[r].settings)) =>
        StageNames(job[r].audioFilters) = <<"dynaudnorm", "equalizer">>

\* C10 amended: when every field takes its default, the chain is all four
\* conditional stages with the default parameters (rate 0.995, 0.1 semitone,
\* makeup 1.04, echo 4 / 0.024) followed by the two always-on stages.
C10_DefaultsGiveSixStages ==
  \A r \in Requests :
     (Running(job[r]) /\ job[r].engine # "none" /\ TakesDefaults(job[r].settings)) =>
        job[r].audioFilters
          = << [name |-> "atempo", p1 |-> <<995, 1000>>, p2 |-> <<0, 1>>],
               [name |-> "asetrate", p1 |-> <<1, 120>>, p2 |-> <<44100, 1>>],
               [name |-> "acompressor", p1 |-> <<2080, 2000>>, p2 |-> <<0, 1>>],
               [name |-> "aecho", p1 |-> <<80, 20>>, p2 |-> <<240, 10000>>],
               [name |-> "dynaudnorm", p1 |-> <<0, 1>>, p2 |-> <<0, 1>>],
               [name |-> "equalizer", p1 |-> <<0, 1>>, p2 |-> <<0, 1>>] >>

C10_Witness ==
  \E r \in Requests :
     /\ job[r].engine = "running"
     /\ TakesDefaults(job[r].settings)
     /\ job[r].settings.v.pitch = Num(0)
     /\ job[r].settings.v.tempo = Null
     /\ job[r].settings.v.warmth = Bool(TRUE)
     /\ Len(job[r].audioFilters) = 6

\* C11: whatever the raw settings are (absent, malformed JSON, null, fields
\* that are no numbers), the settings do not make the request end in an error:
\* a request that passed the token, user, credit and file checks is answered
\* with an error only when its engine invocation failed.
C11_SettingsNeverFailTheRequest ==
  \A r \in Requests :
     (job[r].user # NoUser /\ job[r].inputPath # NoPath /\ job[r].res.done
        /\ job[r].res.status \notin {400, 403}) =>
        (job[r].res.status = 200 \/ job[r].engine = "failed")

\* C12: for a numeric tempoPercent, 100 gives no tempo stage and every other
\* value gives a tempo stage whose rate is that value / 100.
C12_TempoRateIsTempoOver100 ==
  \A r \in Requests :
     (Running(job[r]) /\ job[r].engine # "none" /\ job[r].settings.v.tempo.t = "number") =>
        LET supplied == job[r].settings.v.tempo.v
        IN IF supplied = NeutralTempo
             THEN \A i \in 1..Len(job[r].audioFilters) : job[r].audioFilters[i].name # "atempo"
             ELSE job[r].audioFilters[1]
                    = [name |-> "atempo", p1 |-> <<supplied, 1000>>, p2 |-> <<0, 1>>]

\* The makeup gain a chain applies, as a fraction: that of its warmth stage,
\* and unity when it has none.
MakeupOf(chain) ==
  IF \E i \in 1..Len(chain) : chain[i].name = "acompressor"
    THEN chain[CHOOSE i \in 1..Len(chain) : chain[i].name = "acompressor"].p1
    ELSE <<1, 1>>

\* Fractions with positive denominators.
FracLeq(a, b) == a[1] * b[2] <= b[1] * a[2]

\* Warmth levels of [0, 100], in tenths, every half unit.
WarmthGrid == {w \in 0..1000 : w % 5 = 0}

\* C13: over warmth levels in [0, 100], the makeup gain applied is monotone:
\* what the pipeline applies for the supplied level a is not greater than what
\* it applies for any level b >= a, and not less than for any b <= a.
C13_MakeupMonotoneInWarmth ==
  \A r \in Requests :
     (Running(job[r]) /\ job[r].engine # "none" /\ job[r].settings.v.warmth.t = "number"
        /\ job[r].settings.v.warmth.v \in 0..1000) =>
        LET a == job[r].settings.v.warmth.v
            mine == MakeupOf(job[r].audioFilters)
            other(b) == MakeupOf(BuildFilters([job[r].settings EXCEPT !.v.warmth = Num(b)]))
        IN \A b \in WarmthGrid :
              /\ a <= b => FracLeq(mine, other(b))
              /\ b <= a => FracLeq(other(b), mine)

\* C14: a response that delivers a file delivers the complete output of an
\* engine run that signalled 'end', or the input in simulation mode; while the
\* transfer runs the file is there, complete.
C14_OnlyCompleteFilesDelivered ==
  \A r \in Requests :
     job[r].res.file # NoPath =>
        /\ \/ /\ job[r].mode = "Real"
              /\ job[r].engine = "ended"
              /\ job[r].res.file = job[r].outputPath
           \/ /\ job[r].mode = "Simulated"
              /\ job[r].engine = "none"
              /\ job[r].res.file = job[r].inputPath
        /\ job[r].pc = "downloading" =>
              Exists(job[r].res.file) /\ disk[job[r].res.file] = "complete"

C14_Witness ==
  \E r, q \in Requests :
     /\ job[r].pc = "downloading" /\ job[r].mode = "Real"
     /\ job[q].pc = "processing" /\ Exists(job[q].outputPath)
     /\ disk[job[q].outputPath] = "partial"

\* C15: every step that starts a delivery (Real or Simulated) takes exactly one
\* credit from a user without an active subscription and leaves a subscribed
\* user's counter alone, and no other step of a request changes the counter.
C15_OneCreditPerDelivery ==
  [][\A r \in Requests :
       StepOf(r) =>
          IF job[r].res.file = NoPath /\ job'[r].res.file # NoPath
            THEN OneCreditTaken(job'[r].user)
            ELSE users' = users]_vars

C15_Witness ==
  \E r, q \in Requests :
     /\ job[r].mode = "Real" /\ job[r].res.file # NoPath
     /\ job[q].mode = "Simulated" /\ job[q].res.file # NoPath
     /\ users[job[r].user].subscription = "active"
     /\ users[job[r].user].freeTracksLeft = FreeTracks - 1

\* C16: the probe ends with true or false whatever the query returned (an
\* error gives false), the request takes the simulation path exactly when its
\* own probe gave false and runs the engine only when its own probe gave true.
C16_ModeFollowsOwnProbe ==
  \A r \in Requests :
     /\ job[r].probe = "pending" =>
          job[r].ffmpegAvailable = "pending" /\ job[r].mode = "none" /\ job[r].engine = "none"
     /\ job[r].probe = "error" =>
          job[r].ffmpegAvailable = "false" /\ job[r].mode = "Simulated" /\ job[r].engine = "none"
     /\ job[r].probe = "formats" =>
          job[r].ffmpegAvailable = "true" /\ job[r].mode = "Real"

C16_Witness ==
  \E r, q \in Requests :
     /\ job[r].probe = "error" /\ job[r].mode = "Simulated"
     /\ job[q].probe = "formats" /\ job[q].engine = "running"

StageOrder == <<"atempo", "asetrate", "acompressor", "aecho", "dynaudnorm", "equalizer">>

StageRank(name) == CHOOSE i \in 1..Len(StageOrder) : StageOrder[i] = name

\* C17: every chain built is non-empty, holds only known stages, each at most
\* once and in the order tempo, pitch, warmth, reverb, normalize, EQ, and ends
\* with normalize, EQ.
C17_ChainOrderedEndsWithNormalizeEq ==
  \A r \in Requests :
     (Running(job[r]) /\ job[r].engine # "none") =>
        LET names == StageNames(job[r].audioFilters)
            n == Len(names)
        IN /\ n >= 2
           /\ \A i \in 1..n : \E k \in 1..Len(StageOrder) : StageOrder[k] = names[i]
           /\ \A i, k \in 1..n : i < k => StageRank(names[i]) < StageRank(names[k])
           /\ names[n - 1] = "dynaudnorm"
           /\ names[n] = "equalizer"

C17_Witness ==
  \E r \in Requests :
     /\ job[r].engine = "running"
     /\ StageNames(job[r].audioFilters) = <<"asetrate", "aecho", "dynaudnorm", "equalizer">>

\* C18: on the success paths the file being delivered is on disk for the whole
\* transfer, and every unlink of the job is issued after the download callback
\* has run, from the timer it arms.
C18_NoDeletionBeforeDelivered ==
  \A r \in Requests :
     job[r].res.file # NoPath =>
        /\ \A i \in 1..Len(job[r].unlinks) : job[r].unlinks[i].after
        /\ ~job[r].res.done => (Exists(job[r].res.file) /\ job[r].unlinks = <<>>)

C18_Witness ==
  \E r \in Requests :
     /\ job[r].mode = "Real"
     /\ job[r].pc = "closed"
     /\ Len(job[r].unlinks) = 2
     /\ ~Exists(job[r].outputPath)

\* C19: after a successful Real job the unlink of the output is attempted even
\* when the unlink of the input failed.
C19_OutputUnlinkAlwaysAttempted ==
  \A r \in Requests :
     (job[r].pc = "closed" /\ job[r].engine = "ended") =>
        UnlinksOf(job[r], job[r].outputPath) # {}

\* C20: the engine is started at most once per request (only from "not yet
\* run"), a finished run is never started again, and a request whose run
\* failed never delivers a file or turns to simulation: it is answered 500.
C20_EngineRunsOnceNoFallback ==
  /\ [][\A r \in Requests :
          /\ (job'[r].engine = "running" /\ job[r].engine # "running") => job[r].engine = "none"
          /\ job[r].engine \in {"ended", "failed"} => job'[r].engine = job[r].engine]_vars
  /\ [](\A r \in Requests :
          job[r].engine = "failed" =>
             /\ job[r].mode = "Real"
             /\ job[r].res.file = NoPath
             /\ job[r].pc \in {"failUnlink", "closed"}
             /\ job[r].res.done => job[r].res.status = 500)

C20_Witness ==
  \E r \in Requests :
     /\ job[r].engine = "failed"
     /\ job[r].pc = "closed"
     /\ job[r].res.status = 500

====
